---- MODULE Spec2Model ----
(***************************************************************************)
(* JokeRecommender (your-humor-flask/joke_recommender.py).                 *)
(*                                                                         *)
(* The engine holds the joke catalog and one shared matrix-factorization   *)
(* model; get_joke(user_name, added_ratings) serves a random unheard joke  *)
(* to a user with fewer than 10 rows in added_ratings and otherwise        *)
(* retrains the user's factors and asks the model for its best joke.       *)
(*                                                                         *)
(* A ratings table is a bag of rows: a function from <<user_id, item_id>>  *)
(* to the number of rows of the table with that user and item.  The rating *)
(* value of a row is handed to update_users untouched and no branch of the *)
(* engine reads it, so a row carries no rating here.                       *)
(***************************************************************************)
EXTENDS Integers, Sequences, FiniteSets, TLC

\* ------------------------------------------------------------ bounds
MaxJokes == 2
WarmJokes == 3
ContentJokes == 3
MaxRows == 11
MaxWords == 2

\* ------------------------------------------------------------ program constants
Threshold == 10
ContentRating == 10
Amount == 1

Users == {"u1", "u2"}

VARIABLES
    num_jokes,      \* self._num_jokes
    jokes_df,       \* self._jokes_df["jokes"]: the joke texts, in catalog order
    all_jokes,      \* self._all_jokes
    mf,             \* self._mf: the shared factorization model
    added_ratings,  \* the caller's table of ratings added since construction
    call,           \* the get_joke call that has just returned (NoCall: none)
    pending,        \* per user, the joke served and not yet rated ("": none)
    served,         \* per user, the jokes get_joke has returned for the user
    warmed,         \* per user, whether the recommended branch ever served the user
    threads,        \* per request thread, its get_joke call in progress
    serialized,     \* whether the deployment runs one get_joke call at a time
    common_words,   \* common_words_in_jokes.csv, the "word" column
    content_ratings \* what _save_content_matrix returned

engine_vars == <<num_jokes, jokes_df, all_jokes>>
session_vars == <<pending, served, warmed>>
conc_vars == <<threads, serialized>>
content_vars == <<common_words, content_ratings>>
vars == <<num_jokes, jokes_df, all_jokes, mf, added_ratings, call,
          pending, served, warmed, threads, serialized, common_words, content_ratings>>

\* ------------------------------------------------------------ catalog
\* f"joke_{i}"
JokeId(i) == "joke_" \o ToString(i)

\* set([f"joke_{i}" for i in range(1, self._num_jokes + 1)])
AllJokesOf(n) == {JokeId(i) : i \in 1..n}

\* int(joke_id.replace("joke_", "")) - 1: the 0-based row of the joke
JokeNum(joke_id) == (CHOOSE i \in 1..num_jokes : JokeId(i) = joke_id) - 1

\* self._jokes_df["jokes"][joke_num] (a Series is 0-based, a sequence 1-based)
JokeText(joke_num) == jokes_df[joke_num + 1]

\* The text of all_jokes.csv at row i: a sequence of characters.
CsvText(i) == [c \in 1..i |-> IF c = 1 THEN "A" ELSE "b"]

\* ------------------------------------------------------------ tables
RowsOf(jokes) == Users \X jokes

EmptyTable(jokes) == [r \in RowsOf(jokes) |-> 0]

RECURSIVE SumOver(_, _)
SumOver(df, rows) ==
    IF rows = {} THEN 0
    ELSE LET r == CHOOSE x \in rows : TRUE
         IN df[r] + SumOver(df, rows \ {r})

\* len(df)
Len_(df) == SumOver(df, DOMAIN df)

\* df.empty
IsEmpty(df) == \A r \in DOMAIN df : df[r] = 0

\* ratings_df[ratings_df["user_id"] == user]
\* (fault variants: the filter dropped, the filter inverted)
UserRatingsAll(ratings_df, user) == ratings_df
UserRatingsOfOthers(ratings_df, user) ==
    [r \in DOMAIN ratings_df |-> IF r[1] # user THEN ratings_df[r] ELSE 0]
UserRatings(ratings_df, user) ==
    [r \in DOMAIN ratings_df |-> IF r[1] = user THEN ratings_df[r] ELSE 0]

\* set(df["item_id"])
ItemIds(df) == {r[2] : r \in {x \in DOMAIN df : df[x] > 0}}

\* df.loc[len(df)] = row
AppendRow(df, r) == [df EXCEPT ![r] = @ + 1]

\* ------------------------------------------------------------ the factorization capability
\* The user factors the pickled model holds before any update of that user.
Pickled == [src |-> "pkl", rows |-> <<>>]

NoMemo == [key |-> <<>>, item |-> ""]

\* update_users(X, y, lr, n_epochs): the factors of every user with a row in X
\* are retrained from that user's rows of X; item factors and the other users'
\* factors stay as they are.
UpdateUsers(m, X) ==
    [m EXCEPT !.factors =
        [u \in Users |->
            IF \E r \in DOMAIN X : r[1] = u /\ X[r] > 0
            THEN [src |-> "update_users",
                  rows |-> [r \in DOMAIN X |-> IF r[1] = u THEN X[r] ELSE 0]]
            ELSE @[u]]]

\* recommend(user, items_known, amount=1, include_user=False): the items the
\* model knows, less items_known, ranked by the rating predicted from the user's
\* factors; the best one, or nothing when none is left.  The ranking is unknown
\* but deterministic: the query just answered is answered the same way again.
RecommendKey(m, user, items_known) == <<user, m.factors[user], items_known>>

Recommend(m, user, items_known) ==
    LET candidates == m.items \ items_known
    IN IF candidates = {} THEN {<<>>}
       ELSE IF m.memo.key = RecommendKey(m, user, items_known)
            THEN {<<m.memo.item>>}
            ELSE {<<j>> : j \in candidates}

Remember(m, user, items_known, best) ==
    IF best = <<>> THEN m
    ELSE [m EXCEPT !.memo = [key |-> RecommendKey(m, user, items_known),
                             item |-> best[1]]]

\* ------------------------------------------------------------ get_joke
NoCall ==
    [user |-> "", branch |-> "", outcome |-> "", joke_id |-> "", joke |-> <<>>,
     mf_calls |-> <<>>, prev |-> <<>>]

\* num_jokes_rated (lines 69-73): 0 for an empty table, else the rows of the user
NumJokesRated(user_name, df) ==
    IF ~IsEmpty(df) THEN Len_(UserRatings(df, user_name)) ELSE 0

\* if num_jokes_rated < 10  (fault variant: <= 10)
IsColdStartOffByOne(num_jokes_rated) == num_jokes_rated <= Threshold
IsColdStart(num_jokes_rated) == num_jokes_rated < Threshold

\* unheard_jokes (lines 42-45)  (fault variant: the rated jokes not removed)
UnheardJokesAny(user, ratings_df) == all_jokes
UnheardJokes(user, ratings_df) ==
    IF ~IsEmpty(ratings_df)
    THEN all_jokes \ ItemIds(UserRatings(ratings_df, user))
    ELSE all_jokes

\* _get_random_new_joke: the outcomes of random.choice(list(unheard_jokes))
GetRandomNewJoke(user, ratings_df, m) ==
    LET unheard_jokes == UnheardJokes(user, ratings_df)
    IN IF unheard_jokes = {}
       THEN {[outcome |-> "IndexError", joke_id |-> "", joke |-> <<>>,
              mf_calls |-> <<>>, mf |-> m]}
       ELSE {[outcome |-> "return", joke_id |-> joke_id,
              joke |-> JokeText(JokeNum(joke_id)),
              mf_calls |-> <<>>, mf |-> m] : joke_id \in unheard_jokes}

\* items_known = user_ratings["item_id"]  (fault variant: nothing known)
ItemsKnownNone(user_ratings) == {}
ItemsKnown(user_ratings) == ItemIds(user_ratings)

UpdateCall(X) == [op |-> "update_users", X |-> X]
RecommendCall(user, items_known) ==
    [op |-> "recommend", user |-> user, items_known |-> items_known,
     amount |-> Amount, include_user |-> FALSE]

\* best["item_id"].item() and the lookup of the text (lines 61-63)
\* (fault variant: a default joke when nothing is recommended)
BestJokeOrFirst(best, calls, m) ==
    LET joke_id == IF best = <<>> THEN JokeId(1) ELSE best[1]
    IN [outcome |-> "return", joke_id |-> joke_id,
        joke |-> JokeText(JokeNum(joke_id)), mf_calls |-> calls, mf |-> m]
BestJoke(best, calls, m) ==
    IF best = <<>>
    THEN [outcome |-> "ValueError", joke_id |-> "", joke |-> <<>>,
          mf_calls |-> calls, mf |-> m]
    ELSE [outcome |-> "return", joke_id |-> best[1],
          joke |-> JokeText(JokeNum(best[1])), mf_calls |-> calls, mf |-> m]

\* _get_recommended_joke
GetRecommendedJoke(user, ratings_df, m) ==
    LET user_ratings == UserRatings(ratings_df, user)
        m1 == UpdateUsers(m, user_ratings)
        items_known == ItemsKnown(user_ratings)
        calls == <<UpdateCall(user_ratings), RecommendCall(user, items_known)>>
    IN {BestJoke(best, calls, Remember(m1, user, items_known, best)) :
            best \in Recommend(m1, user, items_known)}

\* get_joke: the outcomes of one call
GetJokeOutcomes(user_name, df, m) ==
    IF IsColdStart(NumJokesRated(user_name, df))
    THEN {o @@ [branch |-> "random"] :
            o \in GetRandomNewJoke(user_name, df, m)}
    ELSE {o @@ [branch |-> "recommended"] :
            o \in GetRecommendedJoke(user_name, df, m)}

\* What the previous call returned, when it was this very call (same user, same
\* table): any row added since has cleared the record.
PrevOf(c, user_name) ==
    IF c.user = user_name THEN <<c.outcome, c.joke_id>> ELSE <<>>

GetJoke(user_name) ==
    \E o \in GetJokeOutcomes(user_name, added_ratings, mf) :
        /\ call' = [user |-> user_name, branch |-> o.branch, outcome |-> o.outcome,
                    joke_id |-> o.joke_id, joke |-> o.joke,
                    mf_calls |-> o.mf_calls, prev |-> PrevOf(call, user_name)]
        /\ mf' = o.mf
        /\ UNCHANGED <<engine_vars, added_ratings, session_vars, conc_vars, content_vars>>

\* The caller stores one more rating and will pass the longer table from now on.
AddRating(u, j) ==
    /\ Len_(added_ratings) < MaxRows
    /\ added_ratings' = AppendRow(added_ratings, <<u, j>>)
    /\ call' = NoCall
    /\ UNCHANGED <<engine_vars, mf, session_vars, conc_vars, content_vars>>

\* __init__ with an empty current_ratings_from_sql, over a catalog of texts
Construct(texts) ==
    /\ num_jokes = Len(texts)
    /\ jokes_df = texts
    /\ all_jokes = AllJokesOf(Len(texts))
    /\ mf = [items |-> AllJokesOf(Len(texts)),
             factors |-> [u \in Users |-> Pickled], memo |-> NoMemo]

CsvJokes(n) == [i \in 1..n |-> CsvText(i)]

NoRead == [src |-> "", rows |-> <<>>]

NoThread ==
    [pc |-> "idle", user |-> "", df |-> <<>>, read |-> NoRead,
     outcome |-> "", joke_id |-> ""]

Threads == {"t1", "t2"}

NoContent == [done |-> FALSE, rows |-> <<>>]

\* Nothing served and no request in progress.
Quiet ==
    /\ call = NoCall
    /\ pending = [u \in Users |-> ""]
    /\ served = [u \in Users |-> {}]
    /\ warmed = [u \in Users |-> FALSE]
    /\ threads = [t \in Threads |-> NoThread]

\* The content matrix not computed.
NoContentRun ==
    /\ common_words = <<>>
    /\ content_ratings = NoContent

Init ==
    /\ \E n \in 1..MaxJokes : Construct(CsvJokes(n))
    /\ added_ratings = EmptyTable(all_jokes)
    /\ Quiet /\ serialized = TRUE /\ NoContentRun

Next ==
    \/ \E u \in Users, j \in all_jokes : AddRating(u, j)
    \/ \E u \in Users : GetJoke(u)

Spec == Init /\ [][Next]_vars

\* A table one row short of the threshold for user u1: the first call of an
\* engine may be handed any table.
AlmostWarmTable(jokes) ==
    [r \in RowsOf(jokes) |-> IF r = <<"u1", JokeId(1)>> THEN Threshold - 1 ELSE 0]

WarmInit ==
    /\ \E n \in 1..WarmJokes : Construct(CsvJokes(n))
    /\ added_ratings = AlmostWarmTable(all_jokes)
    /\ Quiet /\ serialized = TRUE /\ NoContentRun

SpecWarm == WarmInit /\ [][Next]_vars

\* ------------------------------------------------------------ a session
\* The caller of a session (the web application) asks for a joke for a user only
\* when the user has rated the joke served before, and stores that rating as
\* one more row of added_ratings.
Serve(u) ==
    /\ pending[u] = ""
    /\ \E o \in GetJokeOutcomes(u, added_ratings, mf) :
        /\ call' = [user |-> u, branch |-> o.branch, outcome |-> o.outcome,
                    joke_id |-> o.joke_id, joke |-> o.joke,
                    mf_calls |-> o.mf_calls, prev |-> PrevOf(call, u)]
        /\ mf' = o.mf
        /\ pending' = [pending EXCEPT ![u] = o.joke_id]
        /\ served' = [served EXCEPT
                        ![u] = IF o.outcome = "return" THEN @ \cup {o.joke_id} ELSE @]
        /\ warmed' = [warmed EXCEPT ![u] = @ \/ o.branch = "recommended"]
    /\ UNCHANGED <<engine_vars, added_ratings, conc_vars, content_vars>>

Rate(u) ==
    /\ pending[u] # ""
    /\ Len_(added_ratings) < MaxRows
    /\ added_ratings' = AppendRow(added_ratings, <<u, pending[u]>>)
    /\ pending' = [pending EXCEPT ![u] = ""]
    /\ call' = NoCall
    /\ UNCHANGED <<engine_vars, mf, served, warmed, conc_vars, content_vars>>

\* The user rates once more a joke the user has rated.
ReRate(u, j) == AddRating(u, j)

SessionNext ==
    \/ \E u \in Users : Serve(u)
    \/ \E u \in Users : Rate(u)
    \/ \E u \in Users : \E j \in ItemIds(UserRatings(added_ratings, u)) : ReRate(u, j)

SpecSession == Init /\ [][SessionNext]_vars

\* ------------------------------------------------------------ concurrent requests
\* Request threads share the engine.  _get_recommended_joke is two calls on the
\* shared model, update_users and then recommend, and another thread may run
\* between them; the engine takes no lock.  When the deployment serializes
\* requests, a call starts only when no other call is between its start and
\* its return.
InCall(t) == threads[t].pc \in {"update_users", "recommend"}

\* get_joke up to its branch: the random branch touches no shared state and
\* runs to its return; the recommended branch stops before update_users.
Begin(t, u) ==
    /\ threads[t].pc = "idle"
    /\ serialized => \A o \in Threads \ {t} : ~InCall(o)
    /\ IF IsColdStart(NumJokesRated(u, added_ratings))
       THEN \E o \in GetRandomNewJoke(u, added_ratings, mf) :
                threads' = [threads EXCEPT ![t] =
                    [pc |-> "returned", user |-> u, df |-> added_ratings,
                     read |-> NoRead, outcome |-> o.outcome, joke_id |-> o.joke_id]]
       ELSE threads' = [threads EXCEPT ![t] =
                    [pc |-> "update_users", user |-> u, df |-> added_ratings,
                     read |-> NoRead, outcome |-> "", joke_id |-> ""]]
    /\ UNCHANGED <<engine_vars, mf, added_ratings, call, session_vars,
                   serialized, content_vars>>

\* lines 55-58
Update(t) ==
    /\ threads[t].pc = "update_users"
    /\ mf' = UpdateUsers(mf, UserRatings(threads[t].df, threads[t].user))
    /\ threads' = [threads EXCEPT ![t].pc = "recommend"]
    /\ UNCHANGED <<engine_vars, added_ratings, call, session_vars, serialized,
                   content_vars>>

\* lines 59-63
RecommendStep(t) ==
    /\ threads[t].pc = "recommend"
    /\ LET user == threads[t].user
           items_known == ItemsKnown(UserRatings(threads[t].df, user))
       IN \E best \in Recommend(mf, user, items_known) :
            LET o == BestJoke(best, <<>>, Remember(mf, user, items_known, best))
            IN /\ mf' = o.mf
               /\ threads' = [threads EXCEPT ![t] =
                     [@ EXCEPT !.pc = "returned", !.read = mf.factors[user],
                               !.outcome = o.outcome, !.joke_id = o.joke_id]]
    /\ UNCHANGED <<engine_vars, added_ratings, call, session_vars, serialized,
                   content_vars>>

\* The caller has taken the returned value (or the exception).
Return(t) ==
    /\ threads[t].pc = "returned"
    /\ threads' = [threads EXCEPT ![t] = NoThread]
    /\ UNCHANGED <<engine_vars, mf, added_ratings, call, session_vars,
                   serialized, content_vars>>

ConcInit ==
    /\ \E n \in 1..MaxJokes : Construct(CsvJokes(n))
    /\ added_ratings = AlmostWarmTable(all_jokes)
    /\ Quiet /\ serialized \in BOOLEAN /\ NoContentRun

ConcNext ==
    \/ \E t \in Threads, u \in Users : Begin(t, u)
    \/ \E t \in Threads : Update(t)
    \/ \E t \in Threads : RecommendStep(t)
    \/ \E t \in Threads : Return(t)
    \/ \E u \in Users, j \in all_jokes : AddRating(u, j)

SpecConc == ConcInit /\ [][ConcNext]_vars

\* ------------------------------------------------------------ _save_content_matrix
\* Joke texts and words are sequences of characters.
Texts == {<<>>, <<"a">>, <<"B">>, <<"a", "B">>, <<"B", "a">>}
Words == {<<"a">>, <<"b">>, <<"B">>, <<"a", "b">>}

\* str.lower()
LowerChar(c) == IF c = "A" THEN "a" ELSE IF c = "B" THEN "b" ELSE c
Lower(text) == [i \in 1..Len(text) |-> LowerChar(text[i])]

\* word in text
Contains(word, text) ==
    \E s \in 0..(Len(text) - Len(word)) : SubSeq(text, s + 1, s + Len(word)) = word

\* word in self._jokes_df["jokes"][joke_num].lower()
\* (fault variant: the text not lowercased)
WordInJokeAsWritten(word, joke_num) == Contains(word, JokeText(joke_num))
WordInJoke(word, joke_num) == Contains(word, Lower(JokeText(joke_num)))

\* np.array([word, f"joke_{joke_num + 1}", 10]): an array of strings
ContentRow(word, joke_num) ==
    <<word, JokeId(joke_num + 1), ToString(ContentRating)>>

\* .astype(np.float32) of a rating cell (line 104)
AsFloat32(cell) == CHOOSE v \in -10..10 : ToString(v) = cell

\* for joke_num in range(self._num_jokes)
RECURSIVE ScanJokes(_, _, _)
ScanJokes(word, joke_num, content) ==
    IF joke_num >= num_jokes THEN content
    ELSE ScanJokes(word, joke_num + 1,
                   IF WordInJoke(word, joke_num)
                   THEN Append(content, ContentRow(word, joke_num))
                   ELSE content)

\* for word in common_words["word"]
RECURSIVE ScanWords(_, _)
ScanWords(w, content) ==
    IF w > Len(common_words) THEN content
    ELSE ScanWords(w + 1, ScanJokes(common_words[w], 0, content))

SaveContentMatrix ==
    /\ ~content_ratings.done
    /\ content_ratings' = [done |-> TRUE, rows |-> ScanWords(1, <<>>)]
    /\ UNCHANGED <<engine_vars, mf, added_ratings, call, session_vars, conc_vars,
                   common_words>>

ContentInit ==
    /\ \E n \in 1..ContentJokes : \E texts \in [1..n -> Texts] : Construct(texts)
    /\ added_ratings = EmptyTable(all_jokes)
    /\ Quiet /\ serialized = TRUE
    /\ \E k \in 0..MaxWords : common_words \in [1..k -> Words]
    /\ content_ratings = NoContent

SpecContent == ContentInit /\ [][SaveContentMatrix]_vars

\* ------------------------------------------------------------ what the claims speak of
Catalog == {JokeId(i) : i \in 1..num_jokes}

\* k: the rows of added_ratings that belong to u
RowCount(u) == SumOver(added_ratings, {r \in DOMAIN added_ratings : r[1] = u})

\* the items u has rated in added_ratings
Rated(u) == {j \in Catalog : added_ratings[<<u, j>>] > 0}

\* the rows of added_ratings that belong to u, as a table
OwnRows(u) ==
    [r \in DOMAIN added_ratings |-> IF r[1] = u THEN added_ratings[r] ELSE 0]

\* The errors of the specification's taxonomy, as the code raises them:
\* random.choice of an empty list, and .item() of an empty Series.
NoUnseenItemsError == "IndexError"
NoRecommendationError == "ValueError"

Returned(u) == call.user = u /\ call.outcome = "return"

\* C1: a call for a user with fewer than 10 rows, whatever the table, returns a
\* joke of the catalog joke_1..joke_N that the user has not rated (and returns
\* one whenever such a joke exists).
C1_ColdJokeIsUnrated ==
    \A u \in Users :
        (call.user = u /\ RowCount(u) < Threshold) =>
            /\ Returned(u) => call.joke_id \in Catalog \ Rated(u)
            /\ Catalog \ Rated(u) # {} => Returned(u)

C1_Witness ==
    \E u \in Users, v \in Users :
        /\ u # v /\ Returned(u) /\ RowCount(u) < Threshold
        /\ Rated(u) # {} /\ call.joke_id \in Rated(v)

\* C2: a call for a user with 10 or more rows asks recommend for 1 item with
\* items_known equal to the user's rated items, and the joke it returns is not
\* one of them.
C2_WarmJokeIsUnrated ==
    \A u \in Users :
        (call.user = u /\ RowCount(u) >= Threshold) =>
            /\ Len(call.mf_calls) > 0
            /\ call.mf_calls[Len(call.mf_calls)]
                 = [op |-> "recommend", user |-> u, items_known |-> Rated(u),
                    amount |-> 1, include_user |-> FALSE]
            /\ Returned(u) => call.joke_id \notin Rated(u)

C2_Witness ==
    \E u \in Users, v \in Users :
        /\ u # v /\ Returned(u) /\ RowCount(u) >= Threshold
        /\ Rated(v) # {} /\ Rated(v) # Rated(u)

\* C3: the branch is decided by k alone: random for every k <= 9 (k = 0 and the
\* empty table included), recommended for every k >= 10.
C3_BranchByRowCount ==
    \A u \in Users :
        call.user = u =>
            /\ RowCount(u) <= 9 <=> call.branch = "random"
            /\ RowCount(u) >= 10 <=> call.branch = "recommended"

C3_Witness ==
    \E u \in Users :
        call.user = u /\ RowCount(u) = 10 /\ call.branch = "recommended"

C3_WitnessNine ==
    \E u \in Users : call.user = u /\ RowCount(u) = 9 /\ call.branch = "random"

\* C4: a random-branch call for a user who has rated the whole catalog fails
\* with NoUnseenItemsError and returns no joke.
C4_ExhaustedCatalogFails ==
    \A u \in Users :
        (call.user = u /\ RowCount(u) < Threshold /\ Rated(u) = Catalog) =>
            /\ call.outcome = NoUnseenItemsError
            /\ call.joke_id = "" /\ call.joke = <<>>

C4_Witness ==
    \E u \in Users :
        /\ call.user = u /\ call.branch = "random" /\ Rated(u) = Catalog
        /\ call.outcome = NoUnseenItemsError

\* C5: a recommended-branch call whose recommend has no candidate left fails
\* with NoRecommendationError after that one recommend call: no retry.
C5_NoCandidateFails ==
    \A u \in Users :
        (call.user = u /\ RowCount(u) >= Threshold /\ mf.items \subseteq Rated(u)) =>
            /\ call.outcome = NoRecommendationError
            /\ call.joke_id = "" /\ call.joke = <<>>
            /\ Cardinality({i \in DOMAIN call.mf_calls :
                                call.mf_calls[i].op = "recommend"}) = 1

C5_Witness ==
    \E u \in Users :
        /\ call.user = u /\ call.branch = "recommended"
        /\ call.outcome = NoRecommendationError
        /\ mf.factors[u].src = "update_users"

\* C6: the same call made twice in a row for a user with 10 or more rows (same
\* user, same table) returns the same joke both times, the second call having
\* retrained the user from the same rows again.
C6_RepeatedWarmCallSameJoke ==
    \A u \in Users :
        (call.user = u /\ RowCount(u) >= Threshold /\ call.prev # <<>>) =>
            /\ call.prev = <<call.outcome, call.joke_id>>
            /\ Len(call.mf_calls) = 2
            /\ call.mf_calls[1] = [op |-> "update_users", X |-> OwnRows(u)]

C6_Witness ==
    \E u \in Users :
        /\ Returned(u) /\ RowCount(u) >= Threshold /\ call.prev # <<>>
        /\ Cardinality(mf.items \ Rated(u)) >= 2

\* C8: a call with k < 10 leaves the shared model as it was; a call with
\* k >= 10 makes exactly one update_users call, on the caller's own rows, and
\* then one recommend call, and only the caller's factors change.
C8_OnlyWarmPathRetrains ==
    [][\A u \in Users :
        (call' # NoCall /\ call'.user = u /\ added_ratings' = added_ratings) =>
            IF RowCount(u) < Threshold
            THEN mf' = mf /\ call'.mf_calls = <<>>
            ELSE /\ Len(call'.mf_calls) = 2
                 /\ call'.mf_calls[1] = [op |-> "update_users", X |-> OwnRows(u)]
                 /\ call'.mf_calls[2].op = "recommend"
                 /\ mf'.factors =
                        [mf.factors EXCEPT
                            ![u] = [src |-> "update_users", rows |-> OwnRows(u)]]
      ]_vars

C8_Witness ==
    \E u \in Users, v \in Users :
        /\ u # v /\ call.user = u /\ call.branch = "recommended"
        /\ Rated(v) # {} /\ mf.factors[v] = Pickled
        /\ mf.factors[u] = [src |-> "update_users", rows |-> OwnRows(u)]

\* C10: in a session (a rating row is appended for each joke returned to a user
\* before the user's next call; the table starts empty and only grows) no joke
\* is returned twice to a user by either branch, and a user once served by the
\* recommended branch is served by it in every later call.
C10_SessionNeverRepeats ==
    [][\A u \in Users :
        (call' # NoCall /\ call'.user = u /\ added_ratings' = added_ratings) =>
            /\ call'.outcome = "return" => call'.joke_id \notin served[u]
            /\ warmed[u] => call'.branch = "recommended"
      ]_vars

C10_Witness ==
    \E u \in Users :
        /\ Returned(u) /\ call.branch = "recommended" /\ pending[u] = call.joke_id
        /\ served[u] = Catalog /\ Cardinality(Catalog) >= 2
        /\ RowCount(u) > Threshold

\* the rows of thread t's snapshot of added_ratings that belong to its user
SnapshotRows(t) ==
    [r \in DOMAIN threads[t].df |->
        IF r[1] = threads[t].user THEN threads[t].df[r] ELSE 0]

\* thread t's call took the recommended branch and its recommend has run
Recommended(t) ==
    /\ threads[t].pc = "returned"
    /\ SumOver(SnapshotRows(t), DOMAIN threads[t].df) >= Threshold

\* C9: update_users and recommend of one call are two steps.  With requests
\* serialized, every recommend reads the user factors its own call's
\* update_users wrote (trained from its own snapshot); without, the factors
\* read are those of some update_users for that user, and the witness is a
\* recommend that read what another call trained from another snapshot.
C9_SerializedReadsOwnUpdate ==
    \A t \in Threads :
        Recommended(t) =>
            /\ threads[t].read.src = "update_users"
            /\ serialized => threads[t].read.rows = SnapshotRows(t)

C9_Witness ==
    \E t \in Threads, o \in Threads :
        /\ ~serialized /\ t # o
        /\ Recommended(t) /\ threads[o].pc = "recommend"
        /\ threads[o].user = threads[t].user /\ threads[o].df # threads[t].df
        /\ threads[t].read.rows = SnapshotRows(o)
        /\ threads[t].read.rows # SnapshotRows(t)

C9_WitnessSerialized ==
    \E t \in Threads, o \in Threads :
        /\ serialized /\ t # o
        /\ Recommended(t) /\ Recommended(o)
        /\ threads[o].user = threads[t].user /\ threads[o].df # threads[t].df

\* the word at position p of the list occurs in the lowercased text of the
\* joke at 0-based position i
Occurs(p, i) ==
    LET word == common_words[p]
        text == jokes_df[i + 1]
    IN \E s \in 0..(Len(text) - Len(word)) :
        \A q \in 1..Len(word) : LowerChar(text[s + q]) = word[q]

WordJokePairs ==
    {pi \in (1..Len(common_words)) \X (0..(num_jokes - 1)) : Occurs(pi[1], pi[2])}

\* C7: the rows of the content matrix are exactly one (word, joke_(i+1), 10)
\* for every pair of a word of the list and a joke at 0-based position i whose
\* lowercased text contains the word, and nothing else; 3 jokes and 1 word
\* contained in 2 of them give 2 rows of rating 10.
C7_OneRowPerWordJokePair ==
    content_ratings.done =>
        LET rows == content_ratings.rows
        IN /\ Len(rows) = Cardinality(WordJokePairs)
           /\ \A x \in DOMAIN rows :
                /\ AsFloat32(rows[x][3]) = 10
                /\ \E pi \in WordJokePairs :
                     /\ rows[x][1] = common_words[pi[1]]
                     /\ rows[x][2] = JokeId(pi[2] + 1)
           /\ \A pi \in WordJokePairs :
                Cardinality({x \in DOMAIN rows :
                                /\ rows[x][1] = common_words[pi[1]]
                                /\ rows[x][2] = JokeId(pi[2] + 1)})
                  = Cardinality({p \in DOMAIN common_words :
                                    common_words[p] = common_words[pi[1]]})
           /\ (num_jokes = 3 /\ Len(common_words) = 1
                  /\ Cardinality(WordJokePairs) = 2) => Len(rows) = 2

C7_Witness ==
    /\ content_ratings.done
    /\ num_jokes = 3 /\ common_words = << <<"b">> >>
    /\ jokes_df = << <<"a", "B">>, <<"a">>, <<"B">> >>
    /\ content_ratings.rows
         = << << <<"b">>, "joke_1", "10" >>, << <<"b">>, "joke_3", "10" >> >>

====
